---- MODULE Spec2Model ----
(***************************************************************************)
(* Model of the tap interface bindings of tcpip.js                         *)
(* (TapBindings and VirtualTapInterface).                                  *)
(*                                                                         *)
(* JavaScript runs one call stack to completion; a continuation after an   *)
(* await runs from the microtask queue once the stack is empty.  pc names  *)
(* the synchronous engine operation that is on the stack ("idle" when the  *)
(* stack is empty), and microtasks is the queue of suspended               *)
(* receive_frame calls.                                                    *)
(***************************************************************************)
EXTENDS Naturals, Sequences, FiniteSets

\* ---------------------------------------------------------------- bounds
MaxHandles == 2
MaxObj == 2
MaxFrames == 2
MaxSendAllocs == 2
MaxConsumers == 1
MaxByte == 1

Handles == 1..MaxHandles
Objects == 1..MaxObj
FrameIds == 1..MaxFrames
Consumers == 1..MaxConsumers
\* the contents a frame buffer can have
Bytes == 0..MaxByte

\* The NULL pointer: a handle no interface is registered under.
NullHandle == 0
\* "no object" (undefined)
NoObj == 0
\* "no holder" of the lock of a readable stream
NoHolder == 0

VARIABLES
  interfaces,   \* TapBindings.interfaces: the Map, as a set of <<handle, object>>
  engine,       \* engine side: handle -> "free" | "allocated" | "registered"
  nObj,         \* number of VirtualTapInterface objects constructed so far
  handleOf,     \* object -> the handle its outer hooks closed over
  isListening,  \* object -> #isListening
  controller,   \* object -> #readableController is set
  holder,       \* object -> the consumer holding the lock of readable, or NoHolder
  srcState,     \* object -> state of readable: "readable" | "closed"
  sinkState,    \* object -> state of writable: "writable" | "errored"
  queue,        \* object -> frames enqueued on readable, not yet read
  observed,     \* object -> frames the consumer has read, in order
  microtasks,   \* suspended receive_frame calls, in scheduling order
  nFrames,      \* number of receive_frame calls so far; the next is nFrames + 1
  pc,           \* engine operation on the stack: "idle" | "create" | "send" | "tick"
  cur,          \* the operation on the stack: its handle, object, allocations
  allocs,       \* live foreign allocations made by copyToMemory, per operation
  last,         \* what the last step threw, returned and logged
  mem,          \* the byte in the engine's frame buffer (foreign memory)
  netmask,      \* wire codec: a netmask, as its 4 bytes
  maskSize,     \* wire codec: a mask size (prefix length)
  wireOut       \* wire codec: what the last call of the codec did

wireVars == <<netmask, maskSize, wireOut>>

tapVars == <<interfaces, engine, nObj, handleOf, isListening, controller,
             holder, srcState, sinkState, queue, observed, microtasks, nFrames,
             pc, cur, allocs, last>>

vars == <<tapVars, mem, wireVars>>

ifaceVarsNoQueue == <<nObj, handleOf, isListening, controller, holder,
                      srcState, sinkState, observed>>
ifaceVars == <<ifaceVarsNoQueue, queue>>

\* ------------------------------------------------------------ the Map
\* Map.get(handle): the object, or undefined
MapGet(m, h) ==
  IF \E p \in m : p[1] = h THEN (CHOOSE p \in m : p[1] = h)[2] ELSE NoObj

\* Map.set(handle, object): replaces the entry of the key
MapSet(m, h, o) == {p \in m : p[1] # h} \cup {<<h, o>>}

\* Map.delete(handle)
MapDelete(m, h) == {p \in m : p[1] # h}

Idle == [h |-> NullHandle, obj |-> NoObj, nptr |-> 0, reg0 |-> {}]
\* What the step taken last did, for the operations whose result is not
\* otherwise part of the state (create, remove, write, listen and the
\* dispatch of a frame): op names the operation; obj is the object create
\* returned, or the object the dispatched frame was received for; out is the
\* outcome (remove: found or not, write: the engine's status code, dispatch:
\* what became of the frame); res is the error it threw ("ok" when it
\* returned) and log what it wrote to console.error.
Done(op, o, out, res, log) ==
  [op |-> op, obj |-> o, out |-> out, res |-> res, log |-> log]
\* a step with nothing to report
Quiet == Done("none", NoObj, "none", "ok", "none")

\* copyFromMemory(pointer, length): reads a snapshot, the bytes the buffer
\* holds during the call
copyFromMemory(m) == m

\* The frame source of object o was acquired and then discarded: its lock
\* was released and not taken again, or the stream was cancelled.
Discarded(o) ==
  isListening[o] /\ (holder[o] = NoHolder \/ srcState[o] = "closed")

\* A frame copied out of foreign memory by receive_frame.  id numbers the
\* calls; h is the handle it came with; obj and lis record the object that
\* handle was registered for during the call, and whether it was listening;
\* dis records whether that object's frame source had by then been acquired
\* and discarded (its lock released, or the stream cancelled);
\* acq records whether the object it was enqueued on was listening then;
\* sent records what the foreign buffer held during the call, and bytes is
\* the frame the program holds.
Frame(id, h) ==
  [id |-> id, h |-> h, sent |-> mem, bytes |-> copyFromMemory(mem),
   obj |-> MapGet(interfaces, h),
   lis |-> MapGet(interfaces, h) # NoObj /\ isListening[MapGet(interfaces, h)],
   dis |-> MapGet(interfaces, h) # NoObj /\ Discarded(MapGet(interfaces, h)),
   acq |-> FALSE]

InitTap ==
  /\ interfaces = {}
  /\ engine = [h \in Handles |-> "free"]
  /\ nObj = 0
  /\ handleOf = [o \in Objects |-> NullHandle]
  /\ isListening = [o \in Objects |-> FALSE]
  /\ controller = [o \in Objects |-> FALSE]
  /\ holder = [o \in Objects |-> NoHolder]
  /\ srcState = [o \in Objects |-> "readable"]
  /\ sinkState = [o \in Objects |-> "writable"]
  /\ queue = [o \in Objects |-> <<>>]
  /\ observed = [o \in Objects |-> <<>>]
  /\ microtasks = <<>>
  /\ nFrames = 0
  /\ pc = "idle"
  /\ cur = Idle
  /\ allocs = [create |-> 0, send |-> 0]
  /\ last = Quiet
  /\ mem = 0

\* no call of the codec yet
NoCall == [op |-> "none", res |-> "ok", val |-> 0, gen |-> FALSE]

Init ==
  /\ InitTap
  /\ netmask = <<0, 0, 0, 0>>
  /\ maskSize = 0
  /\ wireOut = NoCall

\* ------------------------------------------------- VirtualTapInterface
\* a constructor whose #isListening field starts true
Construct_listening(o, h) ==
  /\ nObj' = o
  /\ handleOf' = [handleOf EXCEPT ![o] = h]
  /\ isListening' = [isListening EXCEPT ![o] = TRUE]
  /\ controller' = [controller EXCEPT ![o] = TRUE]
  /\ UNCHANGED <<holder, srcState, sinkState, queue, observed>>

\* new VirtualTapInterface(): the constructor runs start() of the readable
\* stream synchronously, so #readableController is set on return
Construct(o, h) ==
  /\ nObj' = o
  /\ handleOf' = [handleOf EXCEPT ![o] = h]
  /\ isListening' = [isListening EXCEPT ![o] = FALSE]
  /\ controller' = [controller EXCEPT ![o] = TRUE]
  /\ UNCHANGED <<holder, srcState, sinkState, queue, observed>>

\* an enqueue that puts the frame at the head of the queue
Enqueue_front(q, f) == <<f>> \o q

\* controller.enqueue(frame): appends to the stream's queue
Enqueue(q, f) == Append(q, f)

\* receiveFrame without the test of #isListening
receiveFrame_buffering(o) ==
  IF ~controller[o] THEN "threwNoController"
  ELSE IF srcState[o] # "readable" THEN "threwEnqueue"
  ELSE "enqueued"

\* inner hook receiveFrame(frame) of object o: what it does with the frame
receiveFrame(o) ==
  IF ~isListening[o] THEN "dropNotListening"
  ELSE IF ~controller[o] THEN "threwNoController"
  ELSE IF srcState[o] # "readable" THEN "threwEnqueue"
  ELSE "enqueued"

\* a lookup made before the await: the object found during the call
lookup_early(f) == f.obj

\* receive_frame after its await: interfaces.get(handle)
lookup(f) == MapGet(interfaces, f.h)

\* a frame that is read from the foreign buffer after the await
frame_late(f) == mem

\* the frame receive_frame hands to the inner hook after its await: a copy
\* of the bytes it copied out of foreign memory before the await
frame(f) == f.bytes

\* a dispatch through one controller shared by all objects: the frame is
\* enqueued on every open stream that is listened to
DispatchInto_shared(f) ==
  LET o == lookup(f)
      r == IF o = NoObj THEN "dropUnknown" ELSE receiveFrame(o)
  IN /\ queue' = IF r = "enqueued"
                 THEN [p \in Objects |->
                         IF isListening[p] /\ srcState[p] = "readable"
                         THEN Enqueue(queue[p], [f EXCEPT !.acq = TRUE])
                         ELSE queue[p]]
                 ELSE queue
     /\ last' = Done("dispatch", f.obj, r,
                     IF r \in {"threwNoController", "threwEnqueue"}
                     THEN "UnhandledRejection" ELSE "ok",
                     IF r = "dropUnknown"
                     THEN "received frame on unknown tap interface"
                     ELSE "none")

\* a dispatch that decides by the listening flag as it was during the
\* engine's call (the test of #isListening made before the await)
DispatchInto_flagAtCall(f) ==
  LET o == lookup(f)
      r == IF o = NoObj THEN "dropUnknown"
           ELSE IF ~(f.obj = o /\ f.lis) THEN "dropNotListening"
           ELSE receiveFrame(o)
  IN /\ queue' = IF r = "enqueued"
                 THEN [queue EXCEPT
                         ![o] = Enqueue(@, [f EXCEPT !.acq = isListening[o]])]
                 ELSE queue
     /\ last' = Done("dispatch", f.obj, r,
                     IF r \in {"threwNoController", "threwEnqueue"}
                     THEN "UnhandledRejection" ELSE "ok",
                     IF r = "dropUnknown"
                     THEN "received frame on unknown tap interface"
                     ELSE "none")

\* the state change of the dispatch of frame f
DispatchInto(f) ==
  LET o == lookup(f)
      r == IF o = NoObj THEN "dropUnknown" ELSE receiveFrame(o)
  IN /\ queue' = IF r = "enqueued"
                 THEN [queue EXCEPT
                         ![o] = Enqueue(@, [f EXCEPT !.acq = isListening[o],
                                                     !.bytes = frame(f)])]
                 ELSE queue
     /\ last' = Done("dispatch", f.obj, r,
                     IF r \in {"threwNoController", "threwEnqueue"}
                     THEN "UnhandledRejection" ELSE "ok",
                     IF r = "dropUnknown"
                     THEN "received frame on unknown tap interface"
                     ELSE "none")

\* nextMicrotask(): the rest of the caller runs from the microtask queue
nextMicrotask(f) ==
  /\ microtasks' = Append(microtasks, f)
  /\ UNCHANGED <<queue, last>>

\* receive_frame without its await: it dispatches during the engine's call
receive_frame_sync(f) ==
  /\ DispatchInto(f)
  /\ UNCHANGED microtasks

\* import receive_frame(handle, framePtr, length), up to its await
receive_frame(f) == nextMicrotask(f)

\* ------------------------------------------------------------ the engine
\* The engine calls receive_frame for one of its interfaces while one of its
\* operations is on the stack.
EngineDeliver(h) ==
  /\ pc # "idle"
  /\ engine[h] # "free"
  /\ nFrames < MaxFrames
  /\ nFrames' = nFrames + 1
  /\ receive_frame(Frame(nFrames + 1, h))
  /\ UNCHANGED <<interfaces, engine, ifaceVarsNoQueue, pc, cur, allocs>>
  /\ UNCHANGED <<mem, wireVars>>

\* The engine reuses or frees the buffer of a frame it has delivered: the
\* buffer holds other bytes.  The engine runs only while one of its
\* operations is on the stack.
EngineOverwrite(b) ==
  /\ pc # "idle"
  /\ b # mem
  /\ mem' = b
  /\ UNCHANGED <<tapVars, wireVars>>

\* The continuation of the oldest suspended receive_frame runs once the
\* stack is empty.
Dispatch ==
  /\ pc = "idle"
  /\ microtasks # <<>>
  /\ microtasks' = Tail(microtasks)
  /\ DispatchInto(Head(microtasks))
  /\ UNCHANGED <<interfaces, engine, ifaceVarsNoQueue, nFrames, pc, cur, allocs>>
  /\ UNCHANGED <<mem, wireVars>>

\* The engine runs its timers (an operation no consumer call started).
TickBegin ==
  /\ pc = "idle"
  /\ microtasks = <<>>
  /\ nFrames < MaxFrames
  /\ \E h \in Handles : engine[h] # "free"
  /\ pc' = "tick"
  /\ last' = Quiet
  /\ UNCHANGED <<interfaces, engine, ifaceVars, microtasks, nFrames, cur,
                 allocs>>
  /\ UNCHANGED <<mem, wireVars>>

TickEnd ==
  /\ pc = "tick"
  /\ pc' = "idle"
  /\ last' = Quiet
  /\ UNCHANGED <<interfaces, engine, ifaceVars, microtasks, nFrames, cur,
                 allocs>>
  /\ UNCHANGED <<mem, wireVars>>

\* ------------------------------------------------------------ TapBindings
\* copyToMemory calls of create: the MAC address, and the address and the
\* netmask when options.ip is given
CreateAllocs(hasIp) == IF hasIp THEN 3 ELSE 1

\* The engine's allocator: the lowest handle it does not use
FreshHandle(h) ==
  /\ h \in Handles
  /\ engine[h] = "free"
  /\ \A g \in Handles : g < h => engine[g] # "free"

\* create(options), up to the call of the engine's create_tap_interface.  The
\* engine allocates a handle it does not use yet, or fails and returns NULL.
CreateBegin(hasIp, h) ==
  /\ pc = "idle"
  /\ nObj < MaxObj
  /\ h = NullHandle \/ FreshHandle(h)
  /\ allocs' = [allocs EXCEPT !.create = CreateAllocs(hasIp)]
  /\ engine' = IF h = NullHandle THEN engine
               ELSE [engine EXCEPT ![h] = "allocated"]
  /\ pc' = "create"
  /\ cur' = [h |-> h, obj |-> NoObj, nptr |-> CreateAllocs(hasIp),
             reg0 |-> interfaces]
  /\ last' = Quiet
  /\ UNCHANGED <<interfaces, ifaceVars, microtasks, nFrames>>
  /\ UNCHANGED <<mem, wireVars>>

\* import register_tap_interface(handle)
register_tap_interface(h) ==
  /\ Construct(nObj + 1, h)
  /\ interfaces' = MapSet(interfaces, h, nObj + 1)

\* The engine registers the handle it allocated, inside create_tap_interface.
EngineRegister ==
  /\ pc = "create"
  /\ cur.h # NullHandle
  /\ engine[cur.h] = "allocated"
  /\ register_tap_interface(cur.h)
  /\ engine' = [engine EXCEPT ![cur.h] = "registered"]
  /\ UNCHANGED <<microtasks, nFrames, pc, cur, allocs, last>>
  /\ UNCHANGED <<mem, wireVars>>

\* a create that returns some registered interface, whatever the handle
create_result_any(m, h) ==
  IF m = {} THEN NoObj ELSE (CHOOSE p \in m : TRUE)[2]

\* create, after the engine returned handle h: the object it returns, or
\* undefined when it throws 'tap interface failed to register'
create_result(m, h) == MapGet(m, h)

\* allocations of create that are still live after its scope ended:
\* all three are "using" declarations
create_leak(nptr) == 0

\* create_tap_interface returns; create looks the handle up and leaves
CreateEnd ==
  /\ pc = "create"
  /\ LET o == create_result(interfaces, cur.h)
     IN last' = Done("create", o, "none",
                     IF o = NoObj THEN "RegistrationFailed" ELSE "ok", "none")
  /\ allocs' = [allocs EXCEPT !.create = create_leak(cur.nptr)]
  /\ pc' = "idle"
  /\ cur' = Idle
  /\ UNCHANGED <<interfaces, engine, ifaceVars, microtasks, nFrames>>
  /\ UNCHANGED <<mem, wireVars>>

\* remove: the handle the loop over interfaces.entries() finds for the
\* object, or NULL when it finds none
remove_lookup(m, o) ==
  IF \E p \in m : p[2] = o THEN (CHOOSE p \in m : p[2] = o)[1] ELSE NullHandle

\* a remove that frees the handle the object was created with, registered
\* or not
remove_engine_stale(e, m, o) ==
  IF handleOf[o] = NullHandle THEN e ELSE [e EXCEPT ![handleOf[o]] = "free"]

\* remove: the engine side after exports.remove_tap_interface(handle)
remove_engine(e, m, o) ==
  IF remove_lookup(m, o) = NullHandle THEN e
  ELSE [e EXCEPT ![remove_lookup(m, o)] = "free"]

\* a remove that forgets interfaces.delete(handle)
remove_interfaces_keep(m, o) == m

\* remove: the Map after interfaces.delete(handle)
remove_interfaces(m, o) ==
  IF remove_lookup(m, o) = NullHandle THEN m
  ELSE MapDelete(m, remove_lookup(m, o))

\* remove(tapInterface): it has no await, so it runs in one piece
Remove(o) ==
  /\ pc = "idle"
  /\ engine' = remove_engine(engine, interfaces, o)
  /\ interfaces' = remove_interfaces(interfaces, o)
  /\ last' = IF remove_lookup(interfaces, o) = NullHandle
              THEN Done("remove", NoObj, "notFound", "ok", "none")
              ELSE Quiet
  /\ UNCHANGED <<ifaceVars, microtasks, nFrames, pc, cur, allocs>>
  /\ UNCHANGED <<mem, wireVars>>

\* outer hook sendFrame(frame), after send_tap_interface returned the status
\* code (or trapped): returns, or throws
sendFrame(code) ==
  IF code = "ERR_OK" THEN "ok"
  ELSE IF code = "TRAP" THEN "EngineThrew"
  ELSE "SendFailed"

\* allocations of sendFrame that are still live after it returned or threw:
\* framePtr is a "const" declaration, which nothing disposes of
sendFrame_leak(nptr) == nptr

\* a write without try/catch: the error reaches the stream, which errors
write_nocatch(r) ==
  [res |-> r, log |-> "none",
   sink |-> IF r = "ok" THEN "writable" ELSE "errored"]

\* write(packet) of the sink: what the writer sees, what is logged and the
\* state of the sink, given what sendFrame did
write(r) ==
  [res |-> "ok",
   log |-> IF r = "ok" THEN "none" ELSE "tap interface send failed",
   sink |-> "writable"]

\* The stream calls write(packet) of the sink of a constructed object: up to
\* the call of the engine's send_tap_interface
WriteBegin(o) ==
  /\ pc = "idle"
  /\ o <= nObj
  /\ sinkState[o] = "writable"
  /\ allocs.send < MaxSendAllocs
  /\ allocs' = [allocs EXCEPT !.send = @ + 1]
  /\ pc' = "send"
  /\ cur' = [h |-> handleOf[o], obj |-> o, nptr |-> 1, reg0 |-> {}]
  /\ last' = Quiet
  /\ UNCHANGED <<interfaces, engine, ifaceVars, microtasks, nFrames>>
  /\ UNCHANGED <<mem, wireVars>>

\* send_tap_interface returns a status code; on a handle the engine has
\* freed its behaviour is undefined, and it may also trap
WriteEnd(code) ==
  /\ pc = "send"
  /\ code = "TRAP" => engine[cur.h] # "registered"
  /\ LET w == write(sendFrame(code))
     IN /\ sinkState' = [sinkState EXCEPT ![cur.obj] = w.sink]
        /\ last' = Done("write", NoObj, code, w.res, w.log)
  /\ allocs' = [allocs EXCEPT !.send = (@ - 1) + sendFrame_leak(cur.nptr)]
  /\ pc' = "idle"
  /\ cur' = Idle
  /\ UNCHANGED <<interfaces, engine, nObj, handleOf, isListening, controller,
                 holder, srcState, queue, observed, microtasks, nFrames>>
  /\ UNCHANGED <<mem, wireVars>>

\* fromReadable(readable): takes the lock of the stream for the caller; the
\* lock hook of the stream sets #isListening
fromReadable(o, c) ==
  /\ holder' = [holder EXCEPT ![o] = c]
  /\ isListening' = [isListening EXCEPT ![o] = TRUE]
  /\ last' = Quiet

\* a listen without the test of readable.locked
listen_nocheck(o, c) == fromReadable(o, c)

\* listen() of a constructed object, called by consumer c
listen(o, c) ==
  IF holder[o] # NoHolder
  THEN /\ last' = Done("listen", NoObj, "none", "AlreadyListening", "none")
       /\ UNCHANGED <<holder, isListening>>
  ELSE fromReadable(o, c)

Listen(o, c) ==
  /\ pc = "idle"
  /\ o <= nObj
  /\ listen(o, c)
  /\ UNCHANGED <<interfaces, engine, nObj, handleOf, controller, srcState,
                 sinkState, queue, observed, microtasks, nFrames, pc, cur,
                 allocs>>
  /\ UNCHANGED <<mem, wireVars>>

\* The holder of the lock reads the next frame of the stream.
Read(o) ==
  /\ pc = "idle"
  /\ holder[o] # NoHolder
  /\ queue[o] # <<>>
  /\ observed' = [observed EXCEPT ![o] = Append(@, Head(queue[o]))]
  /\ queue' = [queue EXCEPT ![o] = Tail(@)]
  /\ last' = Quiet
  /\ UNCHANGED <<interfaces, engine, nObj, handleOf, isListening, controller,
                 holder, srcState, sinkState, microtasks, nFrames, pc, cur,
                 allocs>>
  /\ UNCHANGED <<mem, wireVars>>

\* The holder of the lock releases it; #isListening stays set.
Release(o) ==
  /\ pc = "idle"
  /\ holder[o] # NoHolder
  /\ holder' = [holder EXCEPT ![o] = NoHolder]
  /\ last' = Quiet
  /\ UNCHANGED <<interfaces, engine, nObj, handleOf, isListening, controller,
                 srcState, sinkState, queue, observed, microtasks, nFrames,
                 pc, cur, allocs>>
  /\ UNCHANGED <<mem, wireVars>>

\* The holder of the lock cancels the stream: it closes and its queue is
\* discarded.
Cancel(o) ==
  /\ pc = "idle"
  /\ holder[o] # NoHolder
  /\ srcState[o] = "readable"
  /\ srcState' = [srcState EXCEPT ![o] = "closed"]
  /\ queue' = [queue EXCEPT ![o] = <<>>]
  /\ last' = Quiet
  /\ UNCHANGED <<interfaces, engine, nObj, handleOf, isListening, controller,
                 holder, sinkState, observed, microtasks, nFrames, pc, cur,
                 allocs>>
  /\ UNCHANGED <<mem, wireVars>>

\* ------------------------------------------------------------ wire codec
\* (ipv4.ts: netmasks and prefix lengths)
MaxFlips == 2
MaxMaskSize == 33

RECURSIVE Pow2(_)
Pow2(n) == IF n = 0 THEN 1 ELSE 2 * Pow2(n - 1)

\* bit i of a netmask of 4 bytes, bit 0 being the most significant bit of
\* the first byte: (byte >> (7 - i % 8)) & 1
Bit(m, i) == (m[(i \div 8) + 1] \div Pow2(7 - (i % 8))) % 2

\* a scan that stops at the first zero bit: the bits after it are not looked at
RECURSIVE scan_leading(_, _, _, _)
scan_leading(m, i, count, foundZero) ==
  IF i = 32 \/ Bit(m, i) = 0 THEN [res |-> "ok", val |-> count]
  ELSE scan_leading(m, i + 1, count + 1, FALSE)

\* the scan of getPrefixLength from bit i on, most significant bit first:
\* count is the number of one bits seen, foundZero whether a zero bit was
RECURSIVE scan(_, _, _, _)
scan(m, i, count, foundZero) ==
  IF i = 32 THEN [res |-> "ok", val |-> count]
  ELSE IF Bit(m, i) = 1
       THEN IF foundZero THEN [res |-> "NonContiguousBits", val |-> 0]
            ELSE scan(m, i + 1, count + 1, FALSE)
       ELSE scan(m, i + 1, count, TRUE)

\* a getPrefixLength that counts the leading one bits only
getPrefixLength_leading(m) == scan_leading(m, 0, 0, FALSE)

\* getPrefixLength(netmask): the prefix length, or the error
\* 'invalid netmask: non-contiguous bits'
getPrefixLength(m) == scan(m, 0, 0, FALSE)

\* a loop that sets bit i of the mask counting from the least significant
\* bit of each byte: mask[i / 8] |= 1 << (i % 8)
RECURSIVE setBits_lsb(_, _, _)
setBits_lsb(m, i, n) ==
  IF i = n THEN m
  ELSE setBits_lsb([m EXCEPT ![(i \div 8) + 1] = @ + Pow2(i % 8)], i + 1, n)

\* the loop of generateNetmask: sets bits i, i + 1, .. n - 1 of the mask,
\* mask[i / 8] |= 1 << (7 - i % 8) (the bit is clear before, so | adds)
RECURSIVE setBits(_, _, _)
setBits(m, i, n) ==
  IF i = n THEN m
  ELSE setBits([m EXCEPT ![(i \div 8) + 1] = @ + Pow2(7 - (i % 8))], i + 1, n)

\* a generateNetmask that fills each byte from its least significant bit
generateNetmask_lsb(n) ==
  IF n > 32 THEN [res |-> "MalformedInput", val |-> <<>>]
  ELSE [res |-> "ok", val |-> setBits_lsb(<<0, 0, 0, 0>>, 0, n)]

\* generateNetmask(maskSize): the netmask of maskSize leading one bits, or
\* an error when the size is not one of 0..32
generateNetmask(n) ==
  IF n > 32 THEN [res |-> "MalformedInput", val |-> <<>>]
  ELSE [res |-> "ok", val |-> setBits(<<0, 0, 0, 0>>, 0, n)]

\* The netmask 1^k 0^(32-k), byte by byte, in closed form.
PatternBytes(k) ==
  [b \in 1..4 |->
     IF 8 * b <= k THEN 255
     ELSE IF 8 * (b - 1) >= k THEN 0
     ELSE 256 - Pow2(8 - (k - 8 * (b - 1)))]

\* netmask m with bit i inverted (i = 32: unchanged)
Flip(m, i) ==
  IF i >= 32 THEN m
  ELSE [m EXCEPT ![(i \div 8) + 1] =
          IF Bit(m, i) = 1 THEN @ - Pow2(7 - (i % 8)) ELSE @ + Pow2(7 - (i % 8))]

RECURSIVE FlipAll(_, _, _)
FlipAll(m, f, j) == IF j = 0 THEN m ELSE FlipAll(Flip(m, f[j]), f, j - 1)

\* the netmasks the tests of the codec call getPrefixLength with
TestNetmasks ==
  { <<0, 0, 0, 0>>, <<255, 0, 0, 0>>, <<255, 255, 0, 0>>, <<255, 255, 255, 0>>,
    <<255, 255, 255, 255>>, <<128, 0, 0, 0>>, <<254, 0, 0, 0>>,
    <<255, 248, 0, 0>>, <<255, 255, 224, 0>>, <<255, 255, 255, 128>>,
    <<255, 255, 255, 252>>, <<255, 0, 255, 0>>, <<255, 254, 0, 1>>,
    <<255, 255, 254, 255>> }

\* ------------------------------------------------- create: its arguments
\* options.mac as create gets it: absent, or a string of so many
\* colon-separated groups the largest of which has the value top
MacInputs ==
  {[given |-> FALSE, groups |-> 0, top |-> 0],
   [given |-> TRUE, groups |-> 6, top |-> 255],
   [given |-> TRUE, groups |-> 5, top |-> 255]}

\* options.ip as create gets it: absent, or a string "address/prefix" whose
\* address has so many dot-separated fields, the largest with the value top
IpInputs ==
  {[given |-> FALSE, fields |-> 0, top |-> 0, prefix |-> 0],
   [given |-> TRUE, fields |-> 4, top |-> 255, prefix |-> 24],
   [given |-> TRUE, fields |-> 3, top |-> 255, prefix |-> 24],
   [given |-> TRUE, fields |-> 4, top |-> 256, prefix |-> 24],
   [given |-> TRUE, fields |-> 4, top |-> 255, prefix |-> 33]}

\* serializeMacAddress(mac): six bytes, or an error
serializeMacAddress(mac) ==
  IF mac.groups = 6 /\ mac.top <= 255 THEN "ok" ELSE "MalformedInput"

\* serializeIPv4Address(address): exactly four fields, each in 0..255
serializeIPv4Address(ip) ==
  IF ip.fields = 4 /\ ip.top <= 255 THEN "ok" ELSE "MalformedInput"

\* serializeIPv4Cidr(cidr): the address bytes and generateNetmask(prefix)
serializeIPv4Cidr(ip) ==
  IF serializeIPv4Address(ip) # "ok" THEN "MalformedInput"
  ELSE generateNetmask(ip.prefix).res

\* a create that copies the MAC address to foreign memory before it
\* serializes options.ip
create_serialize_copyFirst(mac, ip) ==
  LET m == IF mac.given THEN serializeMacAddress(mac) ELSE "ok"
      i == IF ip.given THEN serializeIPv4Cidr(ip) ELSE "ok"
  IN IF m # "ok" THEN [res |-> m, reached |-> "none"]
     ELSE IF i # "ok" THEN [res |-> i, reached |-> "copyToMemory"]
     ELSE [res |-> "ok", reached |-> "none"]

\* create, up to its first copyToMemory: options.mac is serialized (or an
\* address generated), then options.ip; reached is the last foreign
\* operation called (copyToMemory, create_tap_interface) when one throws
create_serialize(mac, ip) ==
  LET m == IF mac.given THEN serializeMacAddress(mac) ELSE "ok"
      i == IF ip.given THEN serializeIPv4Cidr(ip) ELSE "ok"
  IN IF m # "ok" THEN [res |-> m, reached |-> "none"]
     ELSE IF i # "ok" THEN [res |-> i, reached |-> "none"]
     ELSE [res |-> "ok", reached |-> "none"]

\* create(options) with options the codec rejects: the async function
\* throws, and whatever it had declared with "using" is disposed of
CreateRejected(mac, ip) ==
  /\ pc = "idle"
  /\ nObj < MaxObj
  /\ create_serialize(mac, ip).res # "ok"
  /\ last' = Done("create", NoObj, create_serialize(mac, ip).reached,
                  create_serialize(mac, ip).res, "none")
  /\ UNCHANGED <<interfaces, engine, ifaceVars, microtasks, nFrames, pc, cur,
                 allocs>>
  /\ UNCHANGED <<mem, wireVars>>

Next ==
  \/ \E mac \in MacInputs, ip \in IpInputs : CreateRejected(mac, ip)
  \/ \E hasIp \in BOOLEAN, h \in Handles \cup {NullHandle} : CreateBegin(hasIp, h)
  \/ EngineRegister
  \/ CreateEnd
  \/ \E o \in Objects : Remove(o)
  \/ \E o \in Objects : WriteBegin(o)
  \/ \E code \in {"ERR_OK", "ERR", "TRAP"} : WriteEnd(code)
  \/ TickBegin
  \/ TickEnd
  \/ \E h \in Handles : EngineDeliver(h)
  \/ Dispatch
  \/ \E o \in Objects, c \in Consumers : Listen(o, c)
  \/ \E o \in Objects : Read(o)
  \/ \E o \in Objects : Release(o)
  \/ \E o \in Objects : Cancel(o)

Spec == Init /\ [][Next]_vars

\* The receive path with the contents of the engine's frame buffer: the
\* engine may overwrite the buffer whenever it runs.  (A send does not
\* touch the bytes of a received frame.)
NextSnapshot ==
  \/ \E hasIp \in BOOLEAN, h \in Handles \cup {NullHandle} : CreateBegin(hasIp, h)
  \/ EngineRegister
  \/ CreateEnd
  \/ \E o \in Objects : Remove(o)
  \/ TickBegin
  \/ TickEnd
  \/ \E h \in Handles : EngineDeliver(h)
  \/ \E b \in Bytes : EngineOverwrite(b)
  \/ Dispatch
  \/ \E o \in Objects, c \in Consumers : Listen(o, c)
  \/ \E o \in Objects : Read(o)
  \/ \E o \in Objects : Release(o)
  \/ \E o \in Objects : Cancel(o)

SpecSnapshot == Init /\ [][NextSnapshot]_vars

\* the choices of at most MaxFlips bits to invert (32: none), in order
Flips ==
  {f \in [1..MaxFlips -> 0..32] : \A j \in 1..(MaxFlips - 1) : f[j] <= f[j + 1]}

\* The netmasks checked are those of the tests and every netmask that
\* differs from some 1^k 0^(32-k) in at most MaxFlips bits; the mask sizes
\* checked are 0..MaxMaskSize.
InitWire ==
  /\ InitTap
  /\ \/ netmask \in TestNetmasks /\ maskSize = 0
     \/ \E k \in 0..32, f \in Flips :
          netmask = FlipAll(PatternBytes(k), f, MaxFlips) /\ maskSize = 0
     \/ netmask = <<0, 0, 0, 0>> /\ maskSize \in 0..MaxMaskSize
  /\ wireOut = NoCall

\* a call getPrefixLength(netmask)
GetPrefixLength ==
  /\ wireOut.op # "getPrefixLength"
  /\ LET r == getPrefixLength(netmask)
     IN wireOut' = [op |-> "getPrefixLength", res |-> r.res, val |-> r.val,
                    gen |-> wireOut.op = "generateNetmask" /\ wireOut.res = "ok"]
  /\ UNCHANGED <<tapVars, mem, netmask, maskSize>>

\* a call netmask = generateNetmask(maskSize)
GenerateNetmask ==
  /\ wireOut.op = "none"
  /\ LET r == generateNetmask(maskSize)
     IN /\ netmask' = IF r.res = "ok" THEN r.val ELSE netmask
        /\ wireOut' = [op |-> "generateNetmask", res |-> r.res, val |-> 0,
                       gen |-> FALSE]
  /\ UNCHANGED <<tapVars, mem, maskSize>>

NextWire ==
  \/ GetPrefixLength
  \/ GenerateNetmask

SpecWire == InitWire /\ [][NextWire]_vars

\* ------------------------------------------------------------ properties
Registered(o) == \E p \in interfaces : p[2] = o
Ids(seq) == [i \in 1..Len(seq) |-> seq[i].id]
PendingIds == {microtasks[i].id : i \in 1..Len(microtasks)}
IsPrefix(s, t) == Len(s) <= Len(t) /\ SubSeq(t, 1, Len(s)) = s
Increasing(s) == \A i, j \in 1..Len(s) : i < j => s[i] < s[j]

\* the frames received for object o while it was listening that are still
\* on their way or were read: read, then enqueued, then awaiting dispatch
ListenedFor(o) ==
  SelectSeq(observed[o] \o queue[o] \o microtasks,
            LAMBDA f : f.obj = o /\ f.lis)

\* C1 as stated: every frame a consumer has read from an interface was
\* received (receive_frame called) for that interface after its frame source
\* had been acquired.
C1_Original ==
  \A o \in Objects : \A i \in 1..Len(observed[o]) :
    observed[o][i].obj = o /\ observed[o][i].lis

\* C1, amended: a frame whose deferred dispatch found the frame source not
\* yet acquired is dropped, never queued: every frame that is enqueued on an
\* interface or was read from it was dispatched after the acquisition.
C1_DroppedAtDispatch ==
  \A o \in Objects :
    /\ \A i \in 1..Len(queue[o]) : queue[o][i].acq
    /\ \A i \in 1..Len(observed[o]) : observed[o][i].acq

\* Object 1 is the only object ever constructed, is registered under the
\* only handle ever allocated and its stream was never closed; its consumer
\* has read frame 2 first.  Frame 1 was therefore dispatched into object 1
\* and not enqueued: it arrived before the acquisition and was dropped.
C1_Witness ==
  /\ nObj = 1
  /\ <<1, 1>> \in interfaces
  /\ \A h \in Handles : h # 1 => engine[h] = "free"
  /\ srcState[1] = "readable"
  /\ Len(observed[1]) > 0
  /\ observed[1][1].id = 2

\* C2: for an interface that stays registered and whose stream stays open,
\* no step loses, reorders or merges a frame received while it was
\* listening: the sequence read-then-queued-then-pending of those frames
\* only grows at its end, and it is in the order of the engine's calls.
C2_Fifo ==
  [][\A o \in Objects :
       /\ Increasing(Ids(ListenedFor(o)))
       /\ Increasing(Ids(ListenedFor(o))')
       /\ (Registered(o) /\ Registered(o)' /\ srcState[o] = "readable"
             /\ srcState'[o] = "readable")
          => IsPrefix(Ids(ListenedFor(o)), Ids(ListenedFor(o))')]_vars

\* two frames received while listening were read, in the order received
C2_Witness ==
  \E o \in Objects :
    /\ Len(observed[o]) >= 2
    /\ \A i \in 1..Len(observed[o]) : observed[o][i].obj = o /\ observed[o][i].lis
    /\ observed[o][1].id < observed[o][2].id

\* C3: a step dispatches a frame only from a state in which no engine
\* operation is on the stack, and the frame was then awaiting dispatch in
\* the microtask queue, where an earlier step (the engine's call) had put it.
C3_Deferred ==
  [][\A id \in FrameIds :
       (/\ id <= nFrames'
        /\ id \notin PendingIds'
        /\ (id > nFrames \/ id \in PendingIds))
       => (pc = "idle" /\ id \in PendingIds)]_vars

\* a frame received during an engine operation has been dispatched and
\* enqueued
C3_Witness == last.op = "dispatch" /\ last.out = "enqueued" /\ pc = "idle"

\* C4: listen() on an interface whose frame source is held fails with
\* AlreadyListening and changes neither the holder nor the listening flag
\* nor the frames queued or read.
C4_Exclusive ==
  [][\A o \in Objects, c \in Consumers :
       (Listen(o, c) /\ holder[o] # NoHolder)
       => /\ last'.res = "AlreadyListening"
          /\ holder' = holder
          /\ isListening' = isListening
          /\ queue' = queue
          /\ observed' = observed]_vars

\* a second listen() has failed while frames were queued for the holder
C4_Witness ==
  /\ last.op = "listen"
  /\ last.res = "AlreadyListening"
  /\ \E o \in Objects : holder[o] # NoHolder /\ queue[o] # <<>>

\* C5: remove of an object the Registry does not hold throws nothing, calls
\* no engine operation (the engine side is unchanged) and leaves the
\* Registry unchanged.
C5_RemoveNoop ==
  [][\A o \in Objects :
       (Remove(o) /\ ~Registered(o))
       => /\ last'.res = "ok"
          /\ engine' = engine
          /\ interfaces' = interfaces]_vars

\* remove has been called with an object that is not registered, while
\* another object is registered under the handle of an object removed before
C5_Witness ==
  /\ last.op = "remove"
  /\ last.out = "notFound"
  /\ \E o \in Objects : o <= nObj /\ ~Registered(o)
                        /\ engine[handleOf[o]] = "registered"

\* C6: in every state a handle maps to at most one object, and a handle is
\* in the Registry exactly when the engine holds it as registered: remove
\* frees the engine side and deletes the mapping in one step.
C6_Atomic ==
  \A h \in Handles :
    /\ Cardinality({p \in interfaces : p[1] = h}) <= 1
    /\ (\E p \in interfaces : p[1] = h) <=> engine[h] = "registered"

\* an interface was registered and has been removed: its handle is free
\* and no longer mapped, while another interface is still registered
C6_Witness ==
  /\ \E o \in Objects : /\ o <= nObj
                        /\ ~Registered(o)
                        /\ engine[handleOf[o]] = "free"
  /\ interfaces # {}

\* C7 as stated: when no operation is on the stack, no allocation made by
\* copyToMemory during create or during a send is live.
C7_Released == pc = "idle" => (allocs.create = 0 /\ allocs.send = 0)

\* C8: a write whose send fails returns without error to the writer and
\* logs the failure, and no sink ever leaves the writable state, so that the
\* stream goes on calling write for every later frame.
C8_SinkStaysOpen ==
  /\ \A o \in Objects : sinkState[o] = "writable"
  /\ last.op = "write"
     => /\ last.res = "ok"
        /\ (last.out # "ERR_OK") <=> (last.log = "tap interface send failed")

\* a send failed, and it was the send of a second write
C8_Witness ==
  /\ last.op = "write"
  /\ last.out = "ERR"
  /\ allocs.send = 2

\* C9: the dispatch of a frame whose handle is not in the Registry throws
\* nothing, logs the event, enqueues the frame nowhere and leaves the
\* Registry and the engine side unchanged.
C9_UnknownHandle ==
  [][(Dispatch /\ MapGet(interfaces, Head(microtasks).h) = NoObj)
     => /\ last'.res = "ok"
        /\ last'.log = "received frame on unknown tap interface"
        /\ queue' = queue
        /\ interfaces' = interfaces
        /\ engine' = engine]_vars

\* a frame received for a registered interface was dropped at dispatch
\* because the interface had been removed in between
C9_Witness ==
  /\ last.op = "dispatch"
  /\ last.out = "dropUnknown"
  /\ last.obj # NoObj

\* C10: when create_tap_interface returns handle h, create returns the
\* object the Registry maps h to if the engine registered h during the
\* call, and otherwise throws RegistrationFailed, the Registry being as it
\* was when create was called.
C10_Create ==
  [][CreateEnd
     => LET h == cur.h
            reg == h # NullHandle /\ engine[h] = "registered"
        IN /\ (last'.res = "RegistrationFailed") <=> ~reg
           /\ reg => (last'.res = "ok" /\ <<h, last'.obj>> \in interfaces')
           /\ ~reg => (last'.obj = NoObj /\ interfaces' = cur.reg0)]_vars

\* a create has failed although the engine had allocated a handle for it
C10_Witness ==
  /\ last.op = "create"
  /\ last.res = "RegistrationFailed"
  /\ \E h \in Handles : engine[h] = "allocated"

\* C11 as stated: a frame received for an interface after its frame source
\* was discarded, and dispatched while it still is, is dropped: it is not
\* enqueued on the interface and the dispatch raises no error; and an
\* interface leaves the Registry only by remove.
C11_DroppedAfterDiscard ==
  [][/\ (/\ Dispatch
          /\ Head(microtasks).dis
          /\ lookup(Head(microtasks)) = Head(microtasks).obj
          /\ Discarded(Head(microtasks).obj))
         => /\ queue' = queue
            /\ last'.res = "ok"
            /\ interfaces' = interfaces
     /\ \A o \in Objects :
          (Registered(o) /\ ~Registered(o)') => Remove(o)]_vars

\* what the consumer and the engine can see of object o
View(o) ==
  [queue |-> queue[o], observed |-> observed[o], isListening |-> isListening[o],
   controller |-> controller[o], holder |-> holder[o], srcState |-> srcState[o],
   sinkState |-> sinkState[o], handle |-> remove_lookup(interfaces, o),
   engine |-> IF handleOf[o] = NullHandle THEN "free" ELSE engine[handleOf[o]]]

\* C12: the dispatch of a received frame, whatever becomes of it (dropped,
\* enqueued, or the enqueue throws), and the return of a send that failed
\* change nothing of any interface other than the one the frame is handled
\* by: its queued and read frames, listening flag, streams, Registry mapping
\* and engine side are as before.
C12_Isolated ==
  [][\A o \in Objects :
       (\/ Dispatch /\ lookup(Head(microtasks)) # o
        \/ pc = "send" /\ pc' = "idle" /\ last'.out # "ERR_OK" /\ cur.obj # o)
       => View(o)' = View(o)]_vars

\* two interfaces are registered; the enqueue of a frame on one has just
\* thrown while a frame is queued on the other
C12_Witness ==
  /\ last.op = "dispatch"
  /\ last.out = "threwEnqueue"
  /\ Cardinality(interfaces) = 2
  /\ \E o \in Objects : /\ Registered(o)
                        /\ last.obj # o
                        /\ queue[o] # <<>>
                        /\ sinkState[o] = "writable"

\* C13: getPrefixLength of a netmask returns k when the netmask is
\* 1^k 0^(32-k) for some k in 0..32, and fails with NonContiguousBits for
\* every other netmask.
C13_PrefixLength ==
  wireOut.op = "getPrefixLength"
  => IF \E k \in 0..32 : netmask = PatternBytes(k)
     THEN wireOut.res = "ok" /\ netmask = PatternBytes(wireOut.val)
     ELSE wireOut.res = "NonContiguousBits"

\* getPrefixLength has failed on a netmask whose last bit only is out of
\* place
C13_Witness ==
  /\ wireOut.op = "getPrefixLength"
  /\ wireOut.res = "NonContiguousBits"
  /\ netmask = <<255, 254, 0, 1>>

\* C14: generateNetmask(n) is the netmask 1^n 0^(32-n) for n in 0..32 and
\* getPrefixLength of it is n; generateNetmask fails for n = 33 (and above).
C14_RoundTrip ==
  /\ wireOut.op = "generateNetmask"
     => IF maskSize <= 32
        THEN wireOut.res = "ok" /\ netmask = PatternBytes(maskSize)
        ELSE wireOut.res # "ok"
  /\ (wireOut.op = "getPrefixLength" /\ wireOut.gen)
     => wireOut.res = "ok" /\ wireOut.val = maskSize

\* the prefix length of generateNetmask(19) was computed
C14_Witness ==
  /\ wireOut.op = "getPrefixLength"
  /\ wireOut.gen
  /\ maskSize = 19
  /\ netmask = <<255, 255, 224, 0>>

\* C15: whether a frame is kept is decided by the listening flag when its
\* deferred dispatch runs, whatever the flag was during the engine's call:
\* dispatched into a registered interface whose stream is open, the frame is
\* appended to the queue of the frame source if the flag is set by then (so
\* also when the source was acquired between the call and the dispatch),
\* and dropped if it is not.
C15_DecidedAtDispatch ==
  [][Dispatch
     => LET f == Head(microtasks)
            o == lookup(f)
        IN (o # NoObj /\ srcState[o] = "readable")
           => IF isListening[o]
              THEN /\ Len(queue'[o]) = Len(queue[o]) + 1
                   /\ queue'[o][Len(queue'[o])].id = f.id
                   /\ SubSeq(queue'[o], 1, Len(queue[o])) = queue[o]
              ELSE queue' = queue]_vars

\* the consumer has read a frame that the engine delivered for the
\* interface before the consumer acquired its frame source
C15_Witness ==
  \E o \in Objects : \E i \in 1..Len(observed[o]) :
    /\ observed[o][i].obj = o
    /\ ~observed[o][i].lis
    /\ observed[o][i].acq
    /\ holder[o] # NoHolder

\* C16: the bytes of every frame the program holds (awaiting dispatch,
\* queued on a frame source, or read by the consumer) are the bytes the
\* foreign buffer held during the engine's call, whatever the engine wrote
\* to the buffer afterwards.
C16_Snapshot ==
  /\ \A i \in 1..Len(microtasks) : microtasks[i].bytes = microtasks[i].sent
  /\ \A o \in Objects :
       /\ \A i \in 1..Len(queue[o]) : queue[o][i].bytes = queue[o][i].sent
       /\ \A i \in 1..Len(observed[o]) : observed[o][i].bytes = observed[o][i].sent

\* a frame has just been dispatched and enqueued although the engine had
\* overwritten its buffer since the call (the engine does not run during a
\* dispatch), and the consumer has read an earlier frame
C16_Witness ==
  /\ last.op = "dispatch"
  /\ last.out = "enqueued"
  /\ \E o \in Objects :
       /\ queue[o] # <<>>
       /\ queue[o][Len(queue[o])].sent # mem
       /\ observed[o] # <<>>

\* C17: the listening flag of an interface is false when the interface is
\* constructed, a step sets it only by acquiring the frame source (the
\* source was free and is held afterwards), and in every state an interface
\* whose flag is false has no frame queued.
C17_ListeningFlag ==
  [][\A o \in Objects :
       /\ ~isListening[o] => queue[o] = <<>>
       /\ ~isListening'[o] => queue'[o] = <<>>
       /\ (nObj < o /\ o <= nObj') => ~isListening'[o]
       /\ (~isListening[o] /\ isListening'[o])
          => /\ \E c \in Consumers : Listen(o, c)
             /\ holder[o] = NoHolder
             /\ holder'[o] # NoHolder]_vars

\* a frame has just been dropped by an interface nobody listens to, which
\* has nothing queued, while another interface is listened to and has a
\* frame queued
C17_Witness ==
  /\ last.op = "dispatch"
  /\ last.out = "dropNotListening"
  /\ last.obj # NoObj
  /\ ~isListening[last.obj]
  /\ Registered(last.obj)
  /\ queue[last.obj] = <<>>
  /\ \E o \in Objects : isListening[o] /\ queue[o] # <<>>

\* C18: create with a malformed MAC address or CIDR throws MalformedInput
\* without having called copyToMemory or the engine, and leaves the
\* Registry, the engine side and the foreign allocations as they were.
C18_MalformedRejected ==
  [][(/\ pc = "idle"
      /\ last'.op = "create"
      /\ \E mac \in MacInputs, ip \in IpInputs :
           /\ \/ mac.given /\ serializeMacAddress(mac) # "ok"
              \/ ip.given /\ serializeIPv4Cidr(ip) # "ok"
           /\ CreateRejected(mac, ip))
     => /\ last'.res = "MalformedInput"
        /\ last'.out = "none"
        /\ allocs' = allocs
        /\ engine' = engine
        /\ interfaces' = interfaces
        /\ pc' = "idle"]_vars

\* a create was rejected while an interface was registered
C18_Witness ==
  /\ last.op = "create"
  /\ last.res = "MalformedInput"
  /\ interfaces # {}

\* object o was registered and has been removed
Removed(o) == o <= nObj /\ ~Registered(o)

\* C19 as stated: once an interface has been removed it is never in the
\* Registry again, no frame is enqueued on it any more (so none from a
\* delivery that was pending when it was removed), and no write to its sink
\* calls the engine with its handle, which the engine has freed.
C19_RemovedTerminal ==
  [][\A o \in Objects :
       Removed(o)
       => /\ Removed(o)'
          /\ Len(queue'[o]) <= Len(queue[o])
          /\ ~(pc = "idle" /\ pc' = "send" /\ cur'.obj = o)]_vars

====
